---- MODULE Spec2Model ----
(***************************************************************************)
(* Model of the code-evaluation endpoints of server/routes.ts:             *)
(*   POST /api/execute-code   (dry run)                                    *)
(*   POST /api/submit-solution                                             *)
(* of the Problem page and its description panel, which call them, and of  *)
(*   GET /api/dashboard/:userId                                            *)
(* Submitted code is a sequence of one-character strings; the substring    *)
(* searches and regular expressions of the handlers are computed on it.    *)
(***************************************************************************)
EXTENDS Integers, Sequences, FiniteSets, TLC

VARIABLES
    code,          \* the text in the client's editor (sent with each request)
    reqs,          \* request slot -> the handler's position and locals
    lastProgress,  \* problem id -> the progress object of the latest submit response
    page,          \* the Problem page: the problem shown and the result displayed
    panel,         \* the problem description panel: its count of revealed hints
    curriculum,    \* the rows the dashboard reads: sections, lessons, problems, progress
    dashboard      \* the latest response of GET /api/dashboard/:userId (Null: none yet)

\* the client's components
ui == <<page, panel>>

\* the dashboard and its tables
board == <<curriculum, dashboard>>

vars == <<code, reqs, lastProgress, ui, board>>

(***************************************************************************)
(* JavaScript values.  Each kind is a record with its own field, so that   *)
(* values of different kinds compare unequal.                              *)
(***************************************************************************)
Null == [null |-> TRUE]
Undefined == [undefined |-> TRUE]
Str(s) == [str |-> s]
Num(n) == [num |-> n]
Arr(a) == [arr |-> a]

(***************************************************************************)
(* String primitives: String.prototype.includes, character classes of the  *)
(* regular expressions, trim and parseInt.                                 *)
(***************************************************************************)
Includes(s, sub) ==
    \E i \in 1..(Len(s) - Len(sub) + 1) : SubSeq(s, i, i + Len(sub) - 1) = sub

IsWhitespace(c) == c \in {" ", "\n", "\t", "\r"}
IsDigit(c) == c \in {"0", "1", "2", "3", "4", "5", "6", "7", "8", "9"}
IsQuote(c) == c \in {"\"", "'"}
IsWordChar(c) ==
    \/ IsDigit(c)
    \/ c = "_"
    \/ c \in {"a", "b", "c", "d", "e", "f", "g", "h", "i", "j", "k", "l", "m",
              "n", "o", "p", "q", "r", "s", "t", "u", "v", "w", "x", "y", "z"}
    \/ c \in {"A", "B", "C", "D", "E", "F", "G", "H", "I", "J", "K", "L", "M",
              "N", "O", "P", "Q", "R", "S", "T", "U", "V", "W", "X", "Y", "Z"}

DigitValue(c) ==
    CASE c = "0" -> 0 [] c = "1" -> 1 [] c = "2" -> 2 [] c = "3" -> 3
      [] c = "4" -> 4 [] c = "5" -> 5 [] c = "6" -> 6 [] c = "7" -> 7
      [] c = "8" -> 8 [] c = "9" -> 9

\* The first index >= j whose character is not whitespace (Len(s) + 1 if none).
RECURSIVE SkipWhitespace(_, _)
SkipWhitespace(s, j) ==
    IF j <= Len(s) /\ IsWhitespace(s[j]) THEN SkipWhitespace(s, j + 1) ELSE j

\* The first index >= j whose character is a quote (Len(s) + 1 if none).
RECURSIVE SkipNonQuotes(_, _)
SkipNonQuotes(s, j) ==
    IF j <= Len(s) /\ ~IsQuote(s[j]) THEN SkipNonQuotes(s, j + 1) ELSE j

RECURSIVE SkipDigits(_, _)
SkipDigits(s, j) ==
    IF j <= Len(s) /\ IsDigit(s[j]) THEN SkipDigits(s, j + 1) ELSE j

RECURSIVE SkipWordChars(_, _)
SkipWordChars(s, j) ==
    IF j <= Len(s) /\ IsWordChar(s[j]) THEN SkipWordChars(s, j + 1) ELSE j

\* parseInt of a non-empty run of decimal digits.
RECURSIVE ParseInt(_)
ParseInt(digits) ==
    IF digits = <<>> THEN 0
    ELSE 10 * ParseInt(SubSeq(digits, 1, Len(digits) - 1)) + DigitValue(digits[Len(digits)])

\* String.prototype.trim
RECURSIVE TrimLeft(_)
TrimLeft(s) ==
    IF s # <<>> /\ IsWhitespace(Head(s)) THEN TrimLeft(Tail(s)) ELSE s

RECURSIVE TrimRight(_)
TrimRight(s) ==
    IF s # <<>> /\ IsWhitespace(s[Len(s)]) THEN TrimRight(SubSeq(s, 1, Len(s) - 1)) ELSE s

Trim(s) == TrimRight(TrimLeft(s))

(***************************************************************************)
(* String.prototype.match for the three patterns of the handlers.  A match *)
(* result is [found, group]: group is capture group 1 of the leftmost      *)
(* match.  Each quantifier is followed by a character outside its class,   *)
(* so the greedy run is the only candidate at a given start.               *)
(***************************************************************************)
NoMatch == [found |-> FALSE, group |-> <<>>]

\* key\s*=\s*["']([^"']+)["'] anchored at index i
QuotedAt(s, key, i) ==
    LET a == i + Len(key)
        b == SkipWhitespace(s, a)
        c == SkipWhitespace(s, b + 1)
        d == SkipNonQuotes(s, c + 1)
    IN  IF /\ a - 1 <= Len(s)
           /\ SubSeq(s, i, a - 1) = key
           /\ b <= Len(s) /\ s[b] = "="
           /\ c <= Len(s) /\ IsQuote(s[c])
           /\ d > c + 1
           /\ d <= Len(s)
        THEN [found |-> TRUE, group |-> SubSeq(s, c + 1, d - 1)]
        ELSE NoMatch

\* key\s*=\s*(\d+) anchored at index i
NumberAt(s, key, i) ==
    LET a == i + Len(key)
        b == SkipWhitespace(s, a)
        c == SkipWhitespace(s, b + 1)
        d == SkipDigits(s, c)
    IN  IF /\ a - 1 <= Len(s)
           /\ SubSeq(s, i, a - 1) = key
           /\ b <= Len(s) /\ s[b] = "="
           /\ d > c
        THEN [found |-> TRUE, group |-> SubSeq(s, c, d - 1)]
        ELSE NoMatch

\* def\s+(\w+) anchored at index i
DefAt(s, key, i) ==
    LET a == i + Len(key)
        b == SkipWhitespace(s, a)
        c == SkipWordChars(s, b)
    IN  IF /\ a - 1 <= Len(s)
           /\ SubSeq(s, i, a - 1) = key
           /\ b > a
           /\ c > b
        THEN [found |-> TRUE, group |-> SubSeq(s, b, c - 1)]
        ELSE NoMatch

\* The leftmost match: the match anchored at the least start index that has one.
LeastOf(S) == CHOOSE i \in S : \A j \in S : i <= j

LeftmostQuoted(s, key) ==
    LET starts == {i \in 1..Len(s) : QuotedAt(s, key, i).found}
    IN  IF starts = {} THEN NoMatch ELSE QuotedAt(s, key, LeastOf(starts))

LeftmostNumber(s, key) ==
    LET starts == {i \in 1..Len(s) : NumberAt(s, key, i).found}
    IN  IF starts = {} THEN NoMatch ELSE NumberAt(s, key, LeastOf(starts))

LeftmostDef(s, key) ==
    LET starts == {i \in 1..Len(s) : DefAt(s, key, i).found}
    IN  IF starts = {} THEN NoMatch ELSE DefAt(s, key, LeastOf(starts))

KEY_NAME == <<"n", "a", "m", "e">>
KEY_AGE == <<"a", "g", "e">>
KEY_CITY == <<"c", "i", "t", "y">>
KEY_PROFESSION == <<"p", "r", "o", "f", "e", "s", "s", "i", "o", "n">>
KEY_DEF == <<"d", "e", "f">>

nameMatch(s) == LeftmostQuoted(s, KEY_NAME)
ageMatch(s) == LeftmostNumber(s, KEY_AGE)
cityMatch(s) == LeftmostQuoted(s, KEY_CITY)
professionMatch(s) == LeftmostQuoted(s, KEY_PROFESSION)
functionMatch(s) == LeftmostDef(s, KEY_DEF)

(***************************************************************************)
(* The markers the handlers search for, and their fixed messages.          *)
(***************************************************************************)
LET_MARKER == <<"l", "e", "t", " ">>
CONST_MARKER == <<"c", "o", "n", "s", "t", " ">>
VAR_MARKER == <<"v", "a", "r", " ">>
DEF_MARKER == <<"d", "e", "f", " ">>
RETURN_MARKER == <<"r", "e", "t", "u", "r", "n">>
CARD_MARKER == <<"c", "r", "e", "a", "t", "e", "_", "b", "u", "s", "i", "n", "e", "s", "s", "_", "c", "a", "r", "d">>
CARD_TITLE == "Personal Information Card"

LetMessage == "Python uses variable assignment without 'let' keyword. Use: name = \"value\""
ConstMessageExecute == "Python doesn't use 'const'. Use: variable = value"
VarMessageExecute == "Python doesn't use 'var'. Use: variable = value"
ConstVarMessageSubmit == "Python doesn't use 'const' or 'var'. Use: variable = value"

ExecuteContentMessages ==
    [name |-> "Name must be a non-empty string",
     age |-> "Age must be a positive number",
     city |-> "City must be a non-empty string",
     profession |-> "Profession must be a non-empty string"]

SubmitContentMessages ==
    [name |-> "Name variable must be assigned a non-empty string value",
     age |-> "Age variable must be assigned a positive number",
     city |-> "City variable must be assigned a non-empty string value",
     profession |-> "Profession variable must be assigned a non-empty string value"]

(***************************************************************************)
(* The checks shared by the two handlers.                                  *)
(***************************************************************************)
\* Array.prototype.push on a condition
PushIf(cond, list, msg) == IF cond THEN Append(list, msg) ELSE list

\* a scan that looks for 'const ' before 'let '
syntaxErrorsExecuteConstFirst(c) ==
    LET s1 == PushIf(Includes(c, CONST_MARKER), <<>>, ConstMessageExecute)
        s2 == PushIf(Includes(c, LET_MARKER), s1, LetMessage)
    IN  PushIf(Includes(c, VAR_MARKER), s2, VarMessageExecute)

\* execute: one message per marker, in the order let, const, var
syntaxErrorsExecute(c) ==
    LET s1 == PushIf(Includes(c, LET_MARKER), <<>>, LetMessage)
        s2 == PushIf(Includes(c, CONST_MARKER), s1, ConstMessageExecute)
    IN  PushIf(Includes(c, VAR_MARKER), s2, VarMessageExecute)

\* a submit scan that only looks for 'let '
syntaxErrorsSubmitLetOnly(c) == PushIf(Includes(c, LET_MARKER), <<>>, LetMessage)

\* submit: let, then one message for const or var
syntaxErrorsSubmit(c) ==
    LET s1 == PushIf(Includes(c, LET_MARKER), <<>>, LetMessage)
    IN  PushIf(Includes(c, CONST_MARKER) \/ Includes(c, VAR_MARKER), s1, ConstVarMessageSubmit)

hasFunction(c) == Includes(c, DEF_MARKER)
\* a return check that wants the keyword followed by a space
hasReturnKeyword(c) == Includes(c, RETURN_MARKER \o <<" ">>)

hasReturn(c) == Includes(c, RETURN_MARKER)

\* The four conditions of the business-card rule, each on the match of its pattern.
textInvalid(m) == ~m.found \/ Trim(m.group) = <<>>
\* an age condition that only rejects an extracted number
ageInvalidWhenMatched(m) == m.found /\ ParseInt(m.group) <= 0

ageInvalid(m) == ~m.found \/ ParseInt(m.group) <= 0

\* a rule that stops at the first failed condition
cardErrorsFirstOnly(c, msgs) ==
    IF textInvalid(nameMatch(c)) THEN <<msgs.name>>
    ELSE IF ageInvalid(ageMatch(c)) THEN <<msgs.age>>
    ELSE IF textInvalid(cityMatch(c)) THEN <<msgs.city>>
    ELSE IF textInvalid(professionMatch(c)) THEN <<msgs.profession>>
    ELSE <<>>

\* the messages the four conditions push, in the order name, age, city, profession
cardErrors(c, msgs) ==
    LET e1 == PushIf(textInvalid(nameMatch(c)), <<>>, msgs.name)
        e2 == PushIf(ageInvalid(ageMatch(c)), e1, msgs.age)
        e3 == PushIf(textInvalid(cityMatch(c)), e2, msgs.city)
    IN  PushIf(textInvalid(professionMatch(c)), e3, msgs.profession)

\* execute: the rule applies when the code mentions create_business_card
contentErrors(c) ==
    IF Includes(c, CARD_MARKER) THEN cardErrors(c, ExecuteContentMessages) ELSE <<>>

\* a submit rule applied to every problem
validationErrorsAnyProblem(problemData, c) == cardErrors(c, SubmitContentMessages)

\* submit: the rule applies when the stored problem has the card's title
validationErrors(problemData, c) ==
    IF problemData.title = CARD_TITLE THEN cardErrors(c, SubmitContentMessages) ELSE <<>>

\* contentValidation and problemSpecificValidation start true and are set to false
\* exactly where a message is pushed
NonePushed(errors) == errors = <<>>

\* a verdict that leaves content validation out
successIgnoringContent(hasFn, hasRet, hasValidPythonSyntax, contentValidation) ==
    hasFn /\ hasRet /\ hasValidPythonSyntax

\* success (execute) and allPassed (submit)
success(hasFn, hasRet, hasValidPythonSyntax, contentValidation) ==
    hasFn /\ hasRet /\ hasValidPythonSyntax /\ contentValidation

\* execute: the error shown in the transcript
primaryError(syntaxErrors, errors, hasFn, hasRet) ==
    IF syntaxErrors # <<>> THEN syntaxErrors[1]
    ELSE IF errors # <<>> THEN errors[1]
    ELSE IF ~hasFn THEN "Missing function definition"
    ELSE IF ~hasRet THEN "Missing return statement"
    ELSE "Unknown error"

\* submit: errorMessage starts as null
errorMessage(syntaxErrors, errors, hasFn, hasRet) ==
    IF syntaxErrors # <<>> THEN Str(syntaxErrors[1])
    ELSE IF ~hasFn THEN Str("Missing function definition. Use 'def function_name():'")
    ELSE IF ~hasRet THEN Str("Missing return statement")
    ELSE IF errors # <<>> THEN Str(errors[1])
    ELSE Null

\* Array.prototype.join
RECURSIVE Join(_, _)
Join(list, sep) ==
    IF Len(list) = 1 THEN list[1]
    ELSE list[1] \o sep \o Join(Tail(list), sep)

\* a time rounded up instead of down
executionTimeRoundedUp(r) == r + 51

\* Math.floor(Math.random() * 100) + 50, for Math.random() in [r/100, (r+1)/100)
executionTime(r) == r + 50

(***************************************************************************)
(* The simulated console transcript (outputMessage).  The fixed template   *)
(* text is represented by its banner; the interpolated parts are kept.     *)
(***************************************************************************)
UNKNOWN == <<"u", "n", "k", "n", "o", "w", "n">>
YOUR_FUNCTION == <<"y", "o", "u", "r", "_", "f", "u", "n", "c", "t", "i", "o", "n">>

DigitChar(d) ==
    CASE d = 0 -> "0" [] d = 1 -> "1" [] d = 2 -> "2" [] d = 3 -> "3" [] d = 4 -> "4"
      [] d = 5 -> "5" [] d = 6 -> "6" [] d = 7 -> "7" [] d = 8 -> "8" [] d = 9 -> "9"

\* String(n) for an integer n
RECURSIVE NatToString(_)
NatToString(n) ==
    IF n < 10 THEN <<DigitChar(n)>> ELSE NatToString(n \div 10) \o <<DigitChar(n % 10)>>

NumberToString(n) == IF n < 0 THEN <<"-">> \o NatToString(0 - n) ELSE NatToString(n)

Quoted(text) == <<"'">> \o text \o <<"'">>

functionName(c) == IF functionMatch(c).found THEN functionMatch(c).group ELSE YOUR_FUNCTION

\* `('${name}', ${age}, '${city}', '${profession}')` with the fallbacks of actualValues
cardDisplay(c) ==
    <<"(">>
    \o Quoted(IF nameMatch(c).found THEN nameMatch(c).group ELSE UNKNOWN)
    \o <<",", " ">>
    \o (IF ageMatch(c).found THEN NumberToString(ParseInt(ageMatch(c).group)) ELSE <<"0">>)
    \o <<",", " ">>
    \o Quoted(IF cityMatch(c).found THEN cityMatch(c).group ELSE UNKNOWN)
    \o <<",", " ">>
    \o Quoted(IF professionMatch(c).found THEN professionMatch(c).group ELSE UNKNOWN)
    \o <<")">>

\* String(v) of a scalar
ScalarToString(v) ==
    IF "num" \in DOMAIN v THEN NumberToString(v.num)
    ELSE IF "str" \in DOMAIN v THEN v.str
    ELSE IF "null" \in DOMAIN v THEN <<"n", "u", "l", "l">>
    ELSE <<"u", "n", "d", "e", "f", "i", "n", "e", "d">>

\* an element of the mapped array as Array.prototype.join renders it
ElementToString(v) ==
    IF "str" \in DOMAIN v THEN Quoted(v.str)
    ELSE IF "num" \in DOMAIN v THEN NumberToString(v.num)
    ELSE <<>>

RECURSIVE JoinElements(_)
JoinElements(a) ==
    IF a = <<>> THEN <<>>
    ELSE IF Len(a) = 1 THEN ElementToString(a[1])
    ELSE ElementToString(a[1]) \o <<",", " ">> \o JoinElements(Tail(a))

\* test_cases[0]?.expected
firstExpected(test_cases) ==
    IF test_cases = <<>> THEN Undefined ELSE test_cases[1].expected

expectedDisplay(expectedResult) ==
    IF "arr" \in DOMAIN expectedResult
    THEN <<"(">> \o JoinElements(expectedResult.arr) \o <<")">>
    ELSE IF "str" \in DOMAIN expectedResult THEN Quoted(expectedResult.str)
    ELSE ScalarToString(expectedResult)

\* execute: the card's tuple only when the declared function is create_business_card
resultDisplayExecute(c, test_cases) ==
    IF functionName(c) = CARD_MARKER THEN cardDisplay(c)
    ELSE expectedDisplay(firstExpected(test_cases))

\* a checklist that stops judging at the first failed predicate
analysisUpToFirstFailure(hasFn, hasRet, hasValidPythonSyntax, contentValid) ==
    [function |-> hasFn,
     return |-> hasFn /\ hasRet,
     syntax |-> hasFn /\ hasRet /\ hasValidPythonSyntax,
     content |-> hasFn /\ hasRet /\ hasValidPythonSyntax /\ contentValid]

\* the four lines of the failure transcript's Code Analysis
analysis(hasFn, hasRet, hasValidPythonSyntax, contentValid) ==
    [function |-> hasFn, return |-> hasRet,
     syntax |-> hasValidPythonSyntax, content |-> contentValid]

(***************************************************************************)
(* The per-case results and the response bodies.                           *)
(***************************************************************************)
\* per-case results that report the expected value as actual whatever the verdict
testResultsActualAlways(testCases, passed, error) ==
    [i \in 1..Len(testCases) |->
        [test_case |-> i,
         passed |-> passed,
         input |-> testCases[i].input,
         expected |-> testCases[i].expected,
         actual |-> testCases[i].expected,
         error |-> IF passed THEN Null ELSE error]]

\* testCases.map((testCase, index) => ...)
testResults(testCases, passed, error) ==
    [i \in 1..Len(testCases) |->
        [test_case |-> i,
         passed |-> passed,
         input |-> testCases[i].input,
         expected |-> testCases[i].expected,
         actual |-> IF passed THEN testCases[i].expected ELSE Null,
         error |-> IF passed THEN Null ELSE error]]

\* execute: the body of the try block, from the syntax scan to the result
executeResult(c, test_cases, r) ==
    LET syntaxErrors == syntaxErrorsExecute(c)
        hasFn == hasFunction(c)
        hasRet == hasReturn(c)
        hasValidPythonSyntax == syntaxErrors = <<>>
        errors == contentErrors(c)
        contentValidation == NonePushed(errors)
        ok == success(hasFn, hasRet, hasValidPythonSyntax, contentValidation)
        outputMessage ==
            IF ok
            THEN [banner |-> "Execution Successful",
                  call |-> functionName(c),
                  result |-> resultDisplayExecute(c, test_cases)]
            ELSE [banner |-> "Execution Failed",
                  error |-> Str(primaryError(syntaxErrors, errors, hasFn, hasRet)),
                  analysis |-> analysis(hasFn, hasRet, hasValidPythonSyntax, contentValidation)]
        caseError ==
            IF syntaxErrors # <<>> THEN Str(syntaxErrors[1])
            ELSE Str("Function implementation incomplete")
    IN  [status |-> 200,
         body |-> [success |-> ok,
                   execution_time |-> executionTime(r),
                   test_results |-> testResults(test_cases, ok, caseError),
                   output |-> outputMessage,
                   error |-> IF syntaxErrors # <<>> THEN Str(Join(syntaxErrors, ". ")) ELSE Null]]

\* a catch block that passes the fault's own message on
executeFailedRawMessage ==
    [status |-> 500,
     body |-> [success |-> FALSE,
               error |-> Str("TypeError: Cannot read properties of undefined (reading 'map')"),
               execution_time |-> 0,
               test_results |-> <<>>,
               output |-> "Console Output:\n>>> Error executing code\nInternal server error occurred"]]

\* execute: the catch block
executeFailed ==
    [status |-> 500,
     body |-> [success |-> FALSE,
               error |-> Str("Code execution failed"),
               execution_time |-> 0,
               test_results |-> <<>>,
               output |-> "Console Output:\n>>> Error executing code\nInternal server error occurred"]]

progress(passed, time) ==
    [is_completed |-> passed,
     attempts |-> 1,
     best_time |-> IF passed THEN Num(time) ELSE Null]

\* a verdict that also fails a run whose simulated time reaches 100 ms
submitResultTimeLimit(syntaxErrors, problemData, c, r) ==
    LET hasFn == hasFunction(c)
        hasRet == hasReturn(c)
        errors == validationErrors(problemData, c)
        ok == success(hasFn, hasRet, syntaxErrors = <<>>, NonePushed(errors))
        time == executionTime(r)
        allPassed == ok /\ time < 100
        error == IF ok THEN Str("Time limit exceeded")
                 ELSE errorMessage(syntaxErrors, errors, hasFn, hasRet)
        outputMessage ==
            IF allPassed
            THEN [banner |-> "Problem Completed Successfully!",
                  call |-> functionName(c),
                  result |-> cardDisplay(c),
                  time |-> time]
            ELSE [banner |-> "Submission Failed",
                  error |-> error,
                  analysis |-> analysis(hasFn, hasRet, syntaxErrors = <<>>, NonePushed(errors))]
    IN  [status |-> 200,
         body |-> [success |-> allPassed,
                   execution_time |-> time,
                   test_results |-> testResults(problemData.testCases, allPassed, error),
                   output |-> outputMessage,
                   error |-> IF allPassed THEN Null ELSE error,
                   progress |-> progress(allPassed, time)]]

\* submit: from the structural checks after the problem query to the response
submitResult(syntaxErrors, problemData, c, r) ==
    LET hasFn == hasFunction(c)
        hasRet == hasReturn(c)
        hasValidPythonSyntax == syntaxErrors = <<>>
        errors == validationErrors(problemData, c)
        problemSpecificValidation == NonePushed(errors)
        allPassed == success(hasFn, hasRet, hasValidPythonSyntax, problemSpecificValidation)
        error == errorMessage(syntaxErrors, errors, hasFn, hasRet)
        time == executionTime(r)
        outputMessage ==
            IF allPassed
            THEN [banner |-> "Problem Completed Successfully!",
                  call |-> functionName(c),
                  result |-> cardDisplay(c),
                  time |-> time]
            ELSE [banner |-> "Submission Failed",
                  error |-> error,
                  analysis |-> analysis(hasFn, hasRet, hasValidPythonSyntax,
                                        problemSpecificValidation)]
    IN  [status |-> 200,
         body |-> [success |-> allPassed,
                   execution_time |-> time,
                   test_results |-> testResults(problemData.testCases, allPassed, error),
                   output |-> outputMessage,
                   error |-> IF allPassed THEN Null ELSE error,
                   progress |-> progress(allPassed, time)]]

problemNotFound == [status |-> 404, body |-> [error |-> Str("Problem not found")]]

\* submit: the catch block
submitFailed == [status |-> 500, body |-> [error |-> Str("Failed to submit solution")]]

(***************************************************************************)
(* Inputs.  A code text is the concatenation of one choice per line slot   *)
(* (an empty choice leaves the line out).                                  *)
(***************************************************************************)
LineDefGreet == <<"d", "e", "f", " ", "g", "r", "e", "e", "t", "(", ")", ":", "\n">>
LineDefCard == <<"d", "e", "f", " ", "c", "r", "e", "a", "t", "e", "_", "b", "u", "s", "i", "n", "e", "s", "s", "_", "c", "a", "r", "d", "(", ")", ":", "\n">>
LineCardComment == <<"#", " ", "c", "r", "e", "a", "t", "e", "_", "b", "u", "s", "i", "n", "e", "s", "s", "_", "c", "a", "r", "d", "\n">>
LineLet == <<"l", "e", "t", " ", "x", " ", "=", " ", "5", "\n">>
LineConst == <<"c", "o", "n", "s", "t", " ", "y", " ", "=", " ", "1", "\n">>
LineVar == <<"v", "a", "r", " ", "z", " ", "=", " ", "2", "\n">>
LineLetter == <<"l", "e", "t", "t", "e", "r", " ", "=", " ", "1", "\n">>
LineName == <<"n", "a", "m", "e", " ", "=", " ", "\"", "A", "n", "n", "\"", "\n">>
LineAge == <<"a", "g", "e", " ", "=", " ", "3", "0", "\n">>
LineAgeNegative == <<"a", "g", "e", " ", "=", " ", "-", "1", "\n">>
LineCity == <<"c", "i", "t", "y", " ", "=", " ", "'", "L", "i", "n", "z", "'", "\n">>
LineProfession == <<"p", "r", "o", "f", "e", "s", "s", "i", "o", "n", " ", "=", " ", "\"", "E", "n", "g", "i", "n", "e", "e", "r", "\"", "\n">>
LineReturn == <<"r", "e", "t", "u", "r", "n", " ", "(", "n", "a", "m", "e", ",", " ", "a", "g", "e", ",", " ", "c", "i", "t", "y", ",", " ", "p", "r", "o", "f", "e", "s", "s", "i", "o", "n", ")", "\n">>

HeaderChoices == {<<>>, LineDefGreet, LineDefCard, LineCardComment}
ForeignChoices == {<<>>, LineLet, LineConst, LineVar, LineLet \o LineConst, LineLetter}
NameChoices == {<<>>, LineName}
AgeChoices == {LineAge, LineAgeNegative}
PlaceChoices == {<<>>, LineCity \o LineProfession}
ReturnChoices == {<<>>, LineReturn}

Codes ==
    {h \o f \o n \o a \o p \o r :
        h \in HeaderChoices, f \in ForeignChoices, n \in NameChoices,
        a \in AgeChoices, p \in PlaceChoices, r \in ReturnChoices}

\* a complete card, and the same without its return
CardCode == LineDefCard \o LineName \o LineAge \o LineCity \o LineProfession \o LineReturn
SampleCodes == {CardCode, LineDefCard \o LineName \o LineAge \o LineCity \o LineProfession}

\* Texts for the content rule: every way each of the four bindings can fail
\* (absent, blank after trim, zero, not a run of digits), under the card's header.
LineNameBlank == <<"n", "a", "m", "e", " ", "=", " ", "\"", " ", "\"", "\n">>
LineAgeZero == <<"a", "g", "e", " ", "=", " ", "0", "\n">>
LineCityBlank == <<"c", "i", "t", "y", " ", "=", " ", "'", " ", "'", "\n">>
LineReturnedComment == <<"#", " ", "r", "e", "t", "u", "r", "n", "e", "d", "\n">>
LineUndefComment == <<"#", " ", "u", "n", "d", "e", "f", " ", "x", "\n">>
LineDefHelper == <<"d", "e", "f", " ", "h", "e", "l", "p", "e", "r", "(", ")", ":", "\n">>

ContentCodes ==
    {LineDefCard \o n \o a \o c \o p \o LineReturn :
        n \in {<<>>, LineName, LineNameBlank},
        a \in {LineAge, LineAgeZero, LineAgeNegative},
        c \in {<<>>, LineCity, LineCityBlank},
        p \in {<<>>, LineProfession}}

\* Texts for the structural check and the transcript: a complete set of bindings
\* under headers with and without 'def ', before endings with and without 'return'.
StructureCodes ==
    {h \o LineName \o LineAge \o LineCity \o LineProfession \o r :
        h \in {LineCardComment, LineDefCard, LineDefHelper \o LineDefCard,
               LineCardComment \o LineUndefComment},
        r \in {<<>>, LineReturn, LineReturnedComment}}

TextCodes == ContentCodes \cup StructureCodes

\* Math.random() falls in [r/100, (r+1)/100) for one r of 0..99
RandomDraws == {0, 99}

Ann == <<"A", "n", "n">>
Linz == <<"L", "i", "n", "z">>
Engineer == <<"E", "n", "g", "i", "n", "e", "e", "r">>
Hello == <<"H", "e", "l", "l", "o">>

CardCase == [input |-> Arr(<<>>), expected |-> Arr(<<Str(Ann), Num(30), Str(Linz), Str(Engineer)>>)]
GreetCase == [input |-> Str(Ann), expected |-> Str(Hello)]
NumberCase == [input |-> Num(2), expected |-> Num(4)]

\* the rows of the problems table
problems ==
    {[id |-> 1, title |-> CARD_TITLE, testCases |-> <<CardCase>>],
     [id |-> 2, title |-> "Simple Greeting", testCases |-> <<GreetCase, NumberCase>>]}

\* the problem ids a request may name: those of the rows and one of no row
RequestedProblemIds == {1, 2, 9}

Users == {"demo_user"}
Pairs == Users \X {p.id : p \in problems}

MaxTestCases == 2
MaxInFlight == 2
MaxHints == 2

\* problemData.hints: the first problem has one hint, the second MaxHints of them
HintRound == <<"hint 1", "hint 2", "hint 3", "hint 4">>
ProblemHints(id) == IF id = 1 THEN SubSeq(HintRound, 1, 1) ELSE SubSeq(HintRound, 1, MaxHints)

\* the test_cases field of an execute request: up to MaxTestCases consecutive cases
\* of a fixed round of cases, Undefined when the caller omits the field, or an array
\* holding null in place of a case
CaseRound == <<CardCase, GreetCase, NumberCase>>
CaseWindow(first, n) == [i \in 1..n |-> CaseRound[((first + i - 2) % Len(CaseRound)) + 1]]
TestCasesInputs ==
    {Arr(CaseWindow(first, n)) : first \in 1..Len(CaseRound), n \in 0..MaxTestCases}
        \cup {Undefined, Arr(<<Null>>)}

Slots == 1..MaxInFlight

(***************************************************************************)
(* The state machine.                                                      *)
(***************************************************************************)
Idle == [pc |-> "idle"]

\* the Problem page as the route /problem/:id first renders it
PageAt(problemId) ==
    [problemId |-> problemId,
     executionResult |-> Undefined,
     resultOf |-> 0,
     hintsUsed |-> 0]

\* the description panel as it mounts: useState(0)
PanelMounted == [hintsRevealed |-> 0]

\* The rows the dashboard reads.  Two sections; lessons 1 and 2 in section 1, lesson 3
\* in section 2; problems 1 and 2 in lesson 1, problem 3 in lesson 2, problem 4 in
\* lesson 3.  so, lo and po are the orderIndex of the two sections, of lessons 1 and
\* 2 and of problems 1 and 2; sl and ll the isLocked flags; pr the progress row of
\* each problem: none, one not completed ("open") or one completed ("done").
CurriculumOf(so, sl, lo, ll, po, pr) ==
    [sections |->
        {[id |-> i, orderIndex |-> so[i], isLocked |-> sl[i]] : i \in {1, 2}},
     lessons |->
        {[id |-> 1, sectionId |-> 1, orderIndex |-> lo[1], isLocked |-> ll[1]],
         [id |-> 2, sectionId |-> 1, orderIndex |-> lo[2], isLocked |-> ll[2]],
         [id |-> 3, sectionId |-> 2, orderIndex |-> 1, isLocked |-> ll[3]]},
     problems |->
        {[id |-> 1, lessonId |-> 1, orderIndex |-> po[1]],
         [id |-> 2, lessonId |-> 1, orderIndex |-> po[2]],
         [id |-> 3, lessonId |-> 2, orderIndex |-> 1],
         [id |-> 4, lessonId |-> 3, orderIndex |-> 3]},
     userProgress |->
        {[problemId |-> i, isCompleted |-> pr[i] = "done"] :
            i \in {j \in DOMAIN pr : pr[j] # "none"}}]

\* the orderIndex of two sibling rows: ascending with the ids, descending, or equal
OrderPairs == {<<1, 2>>, <<2, 1>>, <<1, 1>>}
ProgressDraws ==
    {pr \in [1..4 -> {"none", "open", "done"}] : \A i \in 2..4 : pr[i] # "open"}
Curricula ==
    {CurriculumOf(so, sl, lo, ll, po, pr) :
        so \in OrderPairs, sl \in [1..2 -> BOOLEAN],
        lo \in OrderPairs, ll \in [1..3 -> BOOLEAN],
        po \in OrderPairs, pr \in ProgressDraws}

\* everything in order, unlocked and untouched
Syllabus ==
    CurriculumOf(<<1, 2>>, <<FALSE, FALSE>>, <<1, 2>>, <<FALSE, FALSE, FALSE>>,
                 <<1, 2>>, <<"none", "none", "none", "none">>)

InitWith(codes) ==
    /\ code \in codes
    /\ reqs = [r \in Slots |-> Idle]
    /\ lastProgress = [pair \in Pairs |-> Null]
    /\ page = PageAt(1)
    /\ panel = PanelMounted
    /\ curriculum = Syllabus
    /\ dashboard = Null

Init == InitWith(Codes)
InitConc == InitWith(SampleCodes)

\* req.body.code: the editor's text, or undefined when the caller omits the field
BodyCode(omitCode) == IF omitCode THEN Undefined ELSE Str(code)

\* the checks of the pipeline, as the locals a handler has assigned
NO_CHECKS == {}
SYNTAX_CHECK == {"syntaxErrors"}
ALL_CHECKS == {"syntaxErrors", "hasFunction", "hasReturn", "contentValidation"}

\* test_cases.map reads testCase.input: a TypeError on undefined and on a null element
ThrowsOnCases(test_cases) ==
    \/ test_cases = Undefined
    \/ \E i \in 1..Len(test_cases.arr) : test_cases.arr[i] = Null

\* POST /api/execute-code: the handler has no await and runs in one step.  Without
\* code the first code.includes throws; without usable test cases the handler throws
\* where it first reads them, after the checks.
ExecuteCode(r, omitCode, test_cases, rnd) ==
    /\ reqs[r].pc = "idle"
    /\ reqs' = [reqs EXCEPT ![r] =
            [pc |-> "done",
             endpoint |-> "execute",
             body |-> [code |-> BodyCode(omitCode), test_cases |-> test_cases],
             computed |-> IF omitCode THEN NO_CHECKS ELSE ALL_CHECKS,
             thrown |-> omitCode \/ ThrowsOnCases(test_cases),
             response |-> IF omitCode \/ ThrowsOnCases(test_cases)
                          THEN executeFailed
                          ELSE executeResult(code, test_cases.arr, rnd)]]
    /\ UNCHANGED <<code, lastProgress, ui, board>>

\* POST /api/submit-solution up to its await: the syntax scan and the problem query
SubmitSolutionBegin(r, omitCode, problem_id, user_id) ==
    /\ reqs[r].pc = "idle"
    /\ reqs' = [reqs EXCEPT ![r] =
            IF omitCode
            THEN [pc |-> "done",
                  endpoint |-> "submit",
                  body |-> [problem_id |-> problem_id, code |-> Undefined, user_id |-> user_id],
                  computed |-> NO_CHECKS,
                  thrown |-> TRUE,
                  response |-> submitFailed]
            ELSE [pc |-> "awaitProblem",
                  endpoint |-> "submit",
                  body |-> [problem_id |-> problem_id, code |-> Str(code), user_id |-> user_id],
                  syntaxErrors |-> syntaxErrorsSubmit(code)]]
    /\ UNCHANGED <<code, lastProgress, ui, board>>

\* a query that falls back to the first problem when the id matches no row
problemRowsOrFirst(problem_id) ==
    IF \E p \in problems : p.id = problem_id
    THEN {p \in problems : p.id = problem_id}
    ELSE {p \in problems : p.id = 1}

\* the rows the query returns: where id = problem_id, limit 1
problemRows(problem_id) == {p \in problems : p.id = problem_id}

\* POST /api/submit-solution after the query: 404, or the verdict and the response
SubmitSolutionFinish(r, rnd) ==
    /\ reqs[r].pc = "awaitProblem"
    /\ LET req == reqs[r]
           rows == problemRows(req.body.problem_id)
       IN  IF rows = {}
           THEN /\ reqs' = [reqs EXCEPT ![r] =
                        [pc |-> "done", endpoint |-> "submit", body |-> req.body,
                         computed |-> SYNTAX_CHECK, thrown |-> FALSE,
                         response |-> problemNotFound]]
                /\ UNCHANGED lastProgress
           ELSE LET problemData == CHOOSE p \in rows : TRUE
                    response == submitResult(req.syntaxErrors, problemData, req.body.code.str, rnd)
                IN  /\ reqs' = [reqs EXCEPT ![r] =
                            [pc |-> "done", endpoint |-> "submit", body |-> req.body,
                             computed |-> ALL_CHECKS, thrown |-> FALSE,
                             response |-> response]]
                    /\ lastProgress' =
                            [lastProgress EXCEPT ![<<req.body.user_id, req.body.problem_id>>] =
                                response.body.progress]
    /\ UNCHANGED <<code, ui, board>>

\* POST /api/submit-solution: the awaited query rejects and the catch block answers
SubmitSolutionQueryFails(r) ==
    /\ reqs[r].pc = "awaitProblem"
    /\ reqs' = [reqs EXCEPT ![r] =
            [pc |-> "done", endpoint |-> "submit", body |-> reqs[r].body,
             computed |-> SYNTAX_CHECK, thrown |-> TRUE,
             response |-> submitFailed]]
    /\ UNCHANGED <<code, lastProgress, ui, board>>

\* the response has been sent and the handler is over: its slot is free for the
\* next request
Deliver(r) ==
    /\ reqs[r].pc = "done"
    /\ reqs' = [reqs EXCEPT ![r] = Idle]
    /\ UNCHANGED <<code, lastProgress, ui, board>>

\* the user replaces the editor's text
EditCode(c) ==
    /\ c # code
    /\ code' = c
    /\ UNCHANGED <<reqs, lastProgress, ui, board>>

\* one client, one request at a time, on a fixed text
Next ==
    \/ \E omitCode \in BOOLEAN, test_cases \in TestCasesInputs, rnd \in RandomDraws :
            ExecuteCode(1, omitCode, test_cases, rnd)
    \/ \E omitCode \in BOOLEAN, problem_id \in RequestedProblemIds, user_id \in Users :
            SubmitSolutionBegin(1, omitCode, problem_id, user_id)
    \/ \E rnd \in RandomDraws : SubmitSolutionFinish(1, rnd)
    \/ SubmitSolutionQueryFails(1)
    \/ Deliver(1)

Spec == Init /\ [][Next]_vars

\* MaxInFlight requests, each issued once, interleaved with each other and with edits
NextConc ==
    \/ \E c \in SampleCodes : EditCode(c)
    \/ \E r \in Slots, test_cases \in {Arr(<<CardCase>>)}, rnd \in RandomDraws :
            ExecuteCode(r, FALSE, test_cases, rnd)
    \/ \E r \in Slots, problem_id \in RequestedProblemIds, user_id \in Users :
            SubmitSolutionBegin(r, FALSE, problem_id, user_id)
    \/ \E r \in Slots, rnd \in RandomDraws : SubmitSolutionFinish(r, rnd)

SpecConc == InitConc /\ [][NextConc]_vars

\* the test cases the Problem page sends with a dry run: those of the loaded problem
ProblemCases == {Arr(p.testCases) : p \in problems}

\* one dry run (slot 1) and one submission (slot 2) of the same text, in any order
InitPair == InitWith(Codes \cup TextCodes)
NextPair ==
    \/ \E test_cases \in ProblemCases, rnd \in RandomDraws :
            ExecuteCode(1, FALSE, test_cases, rnd)
    \/ \E problem_id \in RequestedProblemIds, user_id \in Users :
            SubmitSolutionBegin(2, FALSE, problem_id, user_id)
    \/ \E rnd \in RandomDraws : SubmitSolutionFinish(2, rnd)

SpecPair == InitPair /\ [][NextPair]_vars

(***************************************************************************)
(* The Problem page (client).  Slot 1 carries the page's dry run, slot 2   *)
(* its submission; a response waits in its slot until the page's mutation *)
(* callback takes it.  page.resultOf records the problem the displayed     *)
(* result was requested for (0: none).                                     *)
(***************************************************************************)
PageProblemIds == {p.id : p \in problems}
Problem(id) == CHOOSE p \in problems : p.id = id

\* the problem a request was issued for: submit names it, the dry run carries its
\* test cases
IssuedFor(r) ==
    IF reqs[r].endpoint = "submit" THEN reqs[r].body.problem_id
    ELSE (CHOOSE p \in problems : Arr(p.testCases) = reqs[r].body.test_cases).id

\* the route's id changes: the reset effect clears the code, the displayed result
\* and the page's count of hints.  The description panel is unmounted by the
\* loading screen while the new problem is fetched (remount) and stays mounted,
\* with its state, when the new problem is already in the query cache
Navigate(problemId, remount) ==
    /\ problemId # page.problemId
    /\ page' = PageAt(problemId)
    /\ code' = <<>>
    /\ panel' = IF remount THEN PanelMounted ELSE panel
    /\ UNCHANGED <<reqs, lastProgress, board>>

\* handleRunCode: executeMutation.mutate(code) with the loaded problem's test cases
HandleRunCode(rnd) ==
    ExecuteCode(1, FALSE, Arr(Problem(page.problemId).testCases), rnd)

\* handleSubmitSolution: submitMutation.mutate(code) for the route's problem id
HandleSubmitSolution ==
    \E user_id \in Users : SubmitSolutionBegin(2, FALSE, page.problemId, user_id)

\* the result executeMutation.onError displays
ExecuteErrorResult ==
    [success |-> FALSE,
     execution_time |-> 0,
     test_results |-> <<>>,
     output |-> "",
     error |-> Str("Failed to execute code")]

\* onSuccess of either mutation: setExecutionResult(result)
OnSuccess(r) ==
    /\ reqs[r].pc = "done"
    /\ reqs[r].response.status = 200
    /\ page' = [page EXCEPT !.executionResult = reqs[r].response.body,
                            !.resultOf = IssuedFor(r)]
    /\ reqs' = [reqs EXCEPT ![r] = Idle]
    /\ UNCHANGED <<code, lastProgress, panel, board>>

\* onError: the dry run displays a fixed failure, the submission only logs
OnError(r) ==
    /\ reqs[r].pc = "done"
    /\ reqs[r].response.status # 200
    /\ page' = IF reqs[r].endpoint = "execute"
               THEN [page EXCEPT !.executionResult = ExecuteErrorResult,
                                 !.resultOf = IssuedFor(r)]
               ELSE page
    /\ reqs' = [reqs EXCEPT ![r] = Idle]
    /\ UNCHANGED <<code, lastProgress, panel, board>>

\* showNextButton={!!(executionResult?.success && executionResult?.progress?.is_completed)}
showNextButton ==
    /\ page.executionResult # Undefined
    /\ page.executionResult.success
    /\ "progress" \in DOMAIN page.executionResult
    /\ page.executionResult.progress.is_completed

\* on the page the simulated time plays no part: one draw
PageDraws == {0}

InitPage == InitWith({<<>>})
NextPage ==
    \/ \E c \in SampleCodes : EditCode(c)
    \/ \E problemId \in PageProblemIds, remount \in BOOLEAN : Navigate(problemId, remount)
    \/ \E rnd \in PageDraws : HandleRunCode(rnd)
    \/ HandleSubmitSolution
    \/ \E rnd \in PageDraws : SubmitSolutionFinish(2, rnd)
    \/ SubmitSolutionQueryFails(2)
    \/ \E r \in {1, 2} : OnSuccess(r)
    \/ \E r \in {1, 2} : OnError(r)

SpecPage == InitPage /\ [][NextPage]_vars

(***************************************************************************)
(* GET /api/dashboard/:userId.                                             *)
(***************************************************************************)
\* the results a query .orderBy(asc(orderIndex)) may return: every arrangement of the
\* rows in ascending orderIndex (rows of equal orderIndex come in any order)
OrderedBy(rows) ==
    {s \in [1..Cardinality(rows) -> rows] :
        /\ \A i, j \in DOMAIN s : i # j => s[i] # s[j]
        /\ \A i, j \in DOMAIN s : i < j => s[i].orderIndex <= s[j].orderIndex}

\* userProgress.find(p => p.problemId === problem.id)
ProgressFind(userProgress, problemId) ==
    IF \E row \in userProgress : row.problemId = problemId
    THEN CHOOSE row \in userProgress : row.problemId = problemId
    ELSE Undefined

\* sections.map(...): each section with its lessons, each lesson with its problems,
\* each problem with is_completed: progress?.isCompleted || false
sectionsWithProgress(sectionList, lessonList, problemList, userProgress) ==
    LET WithProgress(problem) ==
            LET found == ProgressFind(userProgress, problem.id)
            IN [id |-> problem.id,
                lessonId |-> problem.lessonId,
                orderIndex |-> problem.orderIndex,
                is_completed |-> IF found = Undefined THEN FALSE
                                 ELSE found.isCompleted]
        LessonWithProgress(lesson) ==
            LET lessonProblems == SelectSeq(problemList, LAMBDA q : q.lessonId = lesson.id)
                problemsWithProgress ==
                    [k \in 1..Len(lessonProblems) |-> WithProgress(lessonProblems[k])]
            IN [id |-> lesson.id,
                sectionId |-> lesson.sectionId,
                orderIndex |-> lesson.orderIndex,
                isLocked |-> lesson.isLocked,
                problems |-> problemsWithProgress,
                completed_problems |->
                    Cardinality({k \in DOMAIN problemsWithProgress :
                                    problemsWithProgress[k].is_completed}),
                total_problems |-> Len(problemsWithProgress)]
        SectionWithProgress(section) ==
            LET sectionLessons == SelectSeq(lessonList, LAMBDA q : q.sectionId = section.id)
                lessonsWithProgress ==
                    [j \in 1..Len(sectionLessons) |-> LessonWithProgress(sectionLessons[j])]
            IN [id |-> section.id,
                orderIndex |-> section.orderIndex,
                isLocked |-> section.isLocked,
                lessons |-> lessonsWithProgress,
                completed_lessons |->
                    Cardinality({j \in DOMAIN lessonsWithProgress :
                        /\ lessonsWithProgress[j].completed_problems
                                = lessonsWithProgress[j].total_problems
                        /\ lessonsWithProgress[j].total_problems > 0}),
                total_lessons |-> Len(lessonsWithProgress)]
    IN [i \in 1..Len(sectionList) |-> SectionWithProgress(sectionList[i])]

\* the loops without the test of lesson.isLocked
currentProblemAnyLesson(sections) ==
    LET Open(lesson) == {k \in DOMAIN lesson.problems : ~lesson.problems[k].is_completed}
        Hit(section) == {j \in DOMAIN section.lessons : Open(section.lessons[j]) # {}}
        hits == {i \in DOMAIN sections : ~sections[i].isLocked /\ Hit(sections[i]) # {}}
    IN IF hits = {} THEN Null
       ELSE LET section == sections[LeastOf(hits)]
                lesson == section.lessons[LeastOf(Hit(section))]
            IN lesson.problems[LeastOf(Open(lesson))]

\* the three nested loops: the first problem not completed of the first unlocked
\* lesson that has one, of the first unlocked section that has such a lesson; each
\* loop stops as soon as currentProblem is set
currentProblem(sections) ==
    LET Open(lesson) == {k \in DOMAIN lesson.problems : ~lesson.problems[k].is_completed}
        Hit(section) ==
            {j \in DOMAIN section.lessons :
                ~section.lessons[j].isLocked /\ Open(section.lessons[j]) # {}}
        hits == {i \in DOMAIN sections : ~sections[i].isLocked /\ Hit(sections[i]) # {}}
    IN IF hits = {} THEN Null
       ELSE LET section == sections[LeastOf(hits)]
                lesson == section.lessons[LeastOf(Hit(section))]
            IN lesson.problems[LeastOf(Open(lesson))]

\* the handler, answering the first request for the dashboard: 404 when the users
\* query finds no row, else the sections with progress and the current problem
GetDashboard(userFound) ==
    /\ dashboard = Null
    /\ IF ~userFound
       THEN dashboard' = [status |-> 404, body |-> [error |-> "User not found"]]
       ELSE \E sectionList \in OrderedBy(curriculum.sections),
               lessonList \in OrderedBy(curriculum.lessons),
               problemList \in OrderedBy(curriculum.problems) :
                LET sections == sectionsWithProgress(sectionList, lessonList, problemList,
                                                     curriculum.userProgress)
                IN dashboard' = [status |-> 200,
                                 body |-> [current_problem |-> currentProblem(sections),
                                           sections |-> sections]]
    /\ UNCHANGED <<code, reqs, lastProgress, ui, curriculum>>

InitDashboard ==
    /\ code = <<>>
    /\ reqs = [r \in Slots |-> Idle]
    /\ lastProgress = [pair \in Pairs |-> Null]
    /\ page = PageAt(1)
    /\ panel = PanelMounted
    /\ curriculum \in Curricula
    /\ dashboard = Null

NextDashboard == \E userFound \in BOOLEAN : GetDashboard(userFound)

SpecDashboard == InitDashboard /\ [][NextDashboard]_vars

(***************************************************************************)
(* The problem description panel and its hints.                            *)
(***************************************************************************)
\* handleHintUsed: setHintsUsed(prev => prev + 1); the notification it posts changes
\* nothing of the page
handleHintUsed == page' = [page EXCEPT !.hintsUsed = @ + 1]

\* a click on the hint button
handleShowHint ==
    /\ IF panel.hintsRevealed < Len(ProblemHints(page.problemId))
       THEN /\ panel' = [panel EXCEPT !.hintsRevealed = @ + 1]
            /\ handleHintUsed
       ELSE UNCHANGED <<page, panel>>
    /\ UNCHANGED <<code, reqs, lastProgress, board>>

\* the hints the panel renders: problem.hints.slice(0, hintsRevealed)
RevealedHints ==
    LET hints == ProblemHints(page.problemId)
        n == IF panel.hintsRevealed < Len(hints) THEN panel.hintsRevealed ELSE Len(hints)
    IN SubSeq(hints, 1, n)

\* the page with its description panel: editing, dry runs, hints and navigation
NextHints ==
    \/ \E c \in SampleCodes : EditCode(c)
    \/ \E problemId \in PageProblemIds, remount \in BOOLEAN : Navigate(problemId, remount)
    \/ \E rnd \in PageDraws : HandleRunCode(rnd)
    \/ OnSuccess(1)
    \/ handleShowHint

SpecHints == InitPage /\ [][NextHints]_vars

\* one client, one request at a time, on a text drawn from TextCodes
InitText == InitWith(TextCodes)
SpecText == InitText /\ [][Next]_vars

(***************************************************************************)
(* Vocabulary of the properties.                                           *)
(***************************************************************************)
Answered(r) == reqs[r].pc = "done"
Evaluated(r) == Answered(r) /\ reqs[r].response.status = 200
IsExecute(r) == reqs[r].endpoint = "execute"
IsSubmit(r) == reqs[r].endpoint = "submit"
Body(r) == reqs[r].response.body
SentCode(r) == reqs[r].body.code.str
PairOf(r) == <<reqs[r].body.user_id, reqs[r].body.problem_id>>
StoredProblem(r) == CHOOSE p \in problems : p.id = reqs[r].body.problem_id

\* the four predicates of an evaluated request, read off the submitted text
HasDefMarker(r) == Includes(SentCode(r), DEF_MARKER)
HasReturnMarker(r) == Includes(SentCode(r), RETURN_MARKER)
Violations(r) ==
    IF IsExecute(r) THEN syntaxErrorsExecute(SentCode(r)) ELSE syntaxErrorsSubmit(SentCode(r))
ContentErrorsOf(r) ==
    IF IsExecute(r) THEN contentErrors(SentCode(r))
    ELSE validationErrors(StoredProblem(r), SentCode(r))

\* the primary error a failed evaluation shows: the transcript's error line
ShownError(r) == Body(r).output.error

\* the test cases an evaluated request was given
SuppliedCases(r) ==
    IF IsExecute(r) THEN reqs[r].body.test_cases.arr ELSE StoredProblem(r).testCases

\* C1: in execute and in submit, success is true exactly when the code has the
\* function-definition marker, has the return marker, has no syntax violation and
\* passes content validation, all four together.
C1_SuccessIffAllFour ==
    \A r \in Slots : Evaluated(r) =>
        (Body(r).success <=>
            /\ HasDefMarker(r)
            /\ HasReturnMarker(r)
            /\ Violations(r) = <<>>
            /\ ContentErrorsOf(r) = <<>>)

\* a submit verdict that fails on content validation alone
C1_Witness ==
    \E r \in Slots :
        /\ Evaluated(r) /\ IsSubmit(r)
        /\ ~Body(r).success
        /\ HasDefMarker(r) /\ HasReturnMarker(r) /\ Violations(r) = <<>>
        /\ ContentErrorsOf(r) # <<>>

\* the messages for a missing function definition
MissingFunctionMessage(r) ==
    IF IsExecute(r) THEN "Missing function definition"
    ELSE "Missing function definition. Use 'def function_name():'"

\* C2: whenever success is false, in execute and in submit, the primary error is the
\* first syntax violation, else the missing-function message, else the missing-return
\* message, else the first content error, else "Unknown error".
C2_PrimaryErrorPrecedence ==
    \A r \in Slots : (Evaluated(r) /\ ~Body(r).success) =>
        ShownError(r) =
            Str(IF Violations(r) # <<>> THEN Violations(r)[1]
                ELSE IF ~HasDefMarker(r) THEN MissingFunctionMessage(r)
                ELSE IF ~HasReturnMarker(r) THEN "Missing return statement"
                ELSE IF ContentErrorsOf(r) # <<>> THEN ContentErrorsOf(r)[1]
                ELSE "Unknown error")

\* the submit handler of slot r answers with a verdict in this step
SubmitAnswers(r) ==
    /\ reqs[r].pc = "awaitProblem"
    /\ reqs'[r].pc = "done"
    /\ reqs'[r].response.status = 200

\* the progress a pair had before any submission: the defaults of the user_progress row
NoProgress == [is_completed |-> FALSE, attempts |-> 0, best_time |-> Null]
ProgressOf(p) == IF p = Null THEN NoProgress ELSE p

\* C3: once isCompleted is true for a (user, problem) pair, every later submission
\* for that pair, a failing one included, reports isCompleted true.
C3_CompletionSticky ==
    [][\A pair \in Pairs :
            ProgressOf(lastProgress[pair]).is_completed
                => ProgressOf(lastProgress'[pair]).is_completed]_vars

\* C4: with each submission for a (user, problem) pair, succeeding or failing, the
\* attempts of the returned progress is one more than after the previous submission.
C4_AttemptsGrowByOne ==
    [][\A r \in Slots : SubmitAnswers(r) =>
            reqs'[r].response.body.progress.attempts
                = ProgressOf(lastProgress[PairOf(r)]).attempts + 1]_vars

\* C5: every evaluated request echoes each supplied test case in order with index
\* i+1 (counting from zero), passed equal to the verdict, and actual equal to
\* expected on success and null on failure.
C5_CasesEchoVerdict ==
    \A r \in Slots : Evaluated(r) =>
        LET cases == SuppliedCases(r)
            results == Body(r).test_results
        IN  /\ Len(results) = Len(cases)
            /\ \A i \in 1..Len(cases) :
                /\ results[i].test_case = i
                /\ results[i].input = cases[i].input
                /\ results[i].expected = cases[i].expected
                /\ results[i].passed = Body(r).success
                /\ results[i].actual = IF Body(r).success THEN cases[i].expected ELSE Null

\* a failed verdict over two cases
C5_Witness ==
    \E r \in Slots :
        /\ Evaluated(r) /\ ~Body(r).success
        /\ Len(Body(r).test_results) = 2
        /\ \A i \in 1..2 : ~Body(r).test_results[i].passed /\ Body(r).test_results[i].actual = Null

\* the submit requests answered with a verdict for a pair
SubmittedFor(pair) == {r \in Slots : Evaluated(r) /\ IsSubmit(r) /\ PairOf(r) = pair}

\* C6: when two submit requests for the same user and problem have both completed,
\* attempts has grown by two and isCompleted is true if either succeeded.
C6_NoLostUpdate ==
    \A pair \in Pairs :
        Cardinality(SubmittedFor(pair)) >= 2 =>
            /\ lastProgress[pair].attempts = Cardinality(SubmittedFor(pair))
            /\ (\E r \in SubmittedFor(pair) : Body(r).success) => lastProgress[pair].is_completed

\* C7: a failing submission leaves the recorded bestTimeSeconds of the pair
\* unchanged, and a successful one sets it to that run's time.
C7_BestTimeOnlyOnSuccess ==
    [][\A r \in Slots : SubmitAnswers(r) =>
            lastProgress'[PairOf(r)].best_time =
                IF reqs'[r].response.body.success
                THEN Num(reqs'[r].response.body.execution_time)
                ELSE ProgressOf(lastProgress[PairOf(r)]).best_time]_vars

\* C8: whenever an evaluation ends with success=false, the error field of the
\* result is the one primary error string, never null and never several messages.
C8_OnePrimaryErrorString ==
    \A r \in Slots : (Evaluated(r) /\ ~Body(r).success) =>
        /\ Body(r).error # Null
        /\ Body(r).error = ShownError(r)

\* C9: two submit evaluations of the same problem and the same code have the same
\* success, the same passed value for every test case and the same error.
C9_SameInputSameVerdict ==
    \A r1, r2 \in Slots :
        (/\ Evaluated(r1) /\ Evaluated(r2)
         /\ IsSubmit(r1) /\ IsSubmit(r2)
         /\ reqs[r1].body.problem_id = reqs[r2].body.problem_id
         /\ SentCode(r1) = SentCode(r2)) =>
            /\ Body(r1).success = Body(r2).success
            /\ Body(r1).error = Body(r2).error
            /\ Len(Body(r1).test_results) = Len(Body(r2).test_results)
            /\ \A i \in 1..Len(Body(r1).test_results) :
                    Body(r1).test_results[i].passed = Body(r2).test_results[i].passed

\* two evaluations of the same problem and code that differ in execution time
C9_Witness ==
    \E r1, r2 \in Slots :
        /\ r1 # r2
        /\ Evaluated(r1) /\ Evaluated(r2)
        /\ IsSubmit(r1) /\ IsSubmit(r2)
        /\ reqs[r1].body.problem_id = reqs[r2].body.problem_id
        /\ SentCode(r1) = SentCode(r2)
        /\ ~Body(r1).success
        /\ Body(r1).execution_time # Body(r2).execution_time


\* the remediation message of one keyword in the endpoint of request r
MessageOfLet(r) == LetMessage
MessageOfConst(r) == IF IsExecute(r) THEN ConstMessageExecute ELSE ConstVarMessageSubmit

\* the remediation message of the first foreign declaration keyword the scan meets
RemediationMessage(r) ==
    IF Includes(SentCode(r), LET_MARKER) THEN MessageOfLet(r) ELSE MessageOfConst(r)

HasForeignDeclaration(r) ==
    Includes(SentCode(r), LET_MARKER) \/ Includes(SentCode(r), CONST_MARKER)

\* C10 as stated: for code containing 'let ' or 'const ', the syntax violation list
\* is non-empty, its first element is the remediation message of that keyword, and
\* success is false.
C10_FirstIsMessageOfKeyword ==
    \A r \in Slots : Evaluated(r) =>
        /\ Includes(SentCode(r), LET_MARKER) =>
                /\ Violations(r) # <<>>
                /\ Violations(r)[1] = MessageOfLet(r)
                /\ ~Body(r).success
        /\ Includes(SentCode(r), CONST_MARKER) =>
                /\ Violations(r) # <<>>
                /\ Violations(r)[1] = MessageOfConst(r)
                /\ ~Body(r).success

\* C10 (amended): for code containing 'let ' or 'const ', the syntax violation list
\* is non-empty, its first element is the remediation message of 'let ' when the
\* code contains 'let ' and that of 'const ' otherwise, and success is false even
\* with a function definition and a return present.
C10_ForeignKeywordFails ==
    \A r \in Slots :
        /\ (reqs[r].pc = "awaitProblem" /\ HasForeignDeclaration(r)) =>
                /\ reqs[r].syntaxErrors # <<>>
                /\ reqs[r].syntaxErrors[1] = RemediationMessage(r)
        /\ (Evaluated(r) /\ HasForeignDeclaration(r)) =>
                /\ Violations(r) # <<>>
                /\ Violations(r)[1] = RemediationMessage(r)
                /\ ~Body(r).success

\* 'let ' and 'const ' together, with a function definition and a return
C10_Witness ==
    \E r \in Slots :
        /\ Evaluated(r)
        /\ Includes(SentCode(r), CONST_MARKER)
        /\ Includes(SentCode(r), LET_MARKER)
        /\ HasDefMarker(r) /\ HasReturnMarker(r)
        /\ ContentErrorsOf(r) = <<>>
        /\ ~Body(r).success

(***************************************************************************)
(* The content rule.                                                       *)
(***************************************************************************)
\* the content rule of the business card applies to the request: execute selects it
\* by the function name occurring in the code, submit by the stored problem's title
RuleApplies(r) ==
    IF IsExecute(r) THEN Includes(SentCode(r), CARD_MARKER)
    ELSE StoredProblem(r).title = CARD_TITLE

\* the four conditions on the bindings extracted from the code of request r
NameOk(r) == nameMatch(SentCode(r)).found /\ Trim(nameMatch(SentCode(r)).group) # <<>>
AgeOk(r) == ageMatch(SentCode(r)).found /\ ParseInt(ageMatch(SentCode(r)).group) > 0
CityOk(r) == cityMatch(SentCode(r)).found /\ Trim(cityMatch(SentCode(r)).group) # <<>>
ProfessionOk(r) ==
    professionMatch(SentCode(r)).found /\ Trim(professionMatch(SentCode(r)).group) # <<>>

ContentMessages(r) == IF IsExecute(r) THEN ExecuteContentMessages ELSE SubmitContentMessages

\* one message per failed condition, in the order name, age, city, profession
FailedConditionMessages(r) ==
    LET all == <<[ok |-> NameOk(r), msg |-> ContentMessages(r).name],
                 [ok |-> AgeOk(r), msg |-> ContentMessages(r).age],
                 [ok |-> CityOk(r), msg |-> ContentMessages(r).city],
                 [ok |-> ProfessionOk(r), msg |-> ContentMessages(r).profession]>>
        failed == SelectSeq(all, LAMBDA x : ~x.ok)
    IN  [i \in 1..Len(failed) |-> failed[i].msg]

\* the content verdict of an evaluated request: the checklist line of a failure
\* transcript; a success has passed content validation
ContentValid(r) == IF Body(r).success THEN TRUE ELSE Body(r).output.analysis.content

\* C11: for the business-card problem, content validation is valid exactly when the
\* four bindings are extracted with name, city and profession non-empty after trim
\* and age a positive integer; each failed condition appends exactly one message, in
\* the order name, age, city, profession.
C11_CardContentValidation ==
    \A r \in Slots : (Evaluated(r) /\ RuleApplies(r)) =>
        /\ ContentValid(r) <=> (NameOk(r) /\ AgeOk(r) /\ CityOk(r) /\ ProfessionOk(r))
        /\ ContentErrorsOf(r) = FailedConditionMessages(r)
        /\ (Violations(r) = <<>> /\ HasDefMarker(r) /\ HasReturnMarker(r)
                /\ FailedConditionMessages(r) # <<>>)
              => ShownError(r) = Str(FailedConditionMessages(r)[1])

\* a blank name and a zero age together, city and profession in order
C11_Witness ==
    \E r \in Slots :
        /\ Evaluated(r) /\ RuleApplies(r)
        /\ nameMatch(SentCode(r)).found /\ ~NameOk(r)
        /\ ageMatch(SentCode(r)).found /\ ~AgeOk(r)
        /\ CityOk(r) /\ ProfessionOk(r)
        /\ Len(ContentErrorsOf(r)) = 2
        /\ ~ContentValid(r)

\* the text of the scenario's assignment
AGE_MINUS_ONE == <<"a", "g", "e", " ", "=", " ", "-", "1">>

\* the code of request r is valid but for its age, which it assigns -1
ValidButAgeMinusOne(r) ==
    /\ HasDefMarker(r) /\ HasReturnMarker(r) /\ Violations(r) = <<>>
    /\ NameOk(r) /\ CityOk(r) /\ ProfessionOk(r)
    /\ Includes(SentCode(r), AGE_MINUS_ONE)

C13_NoRuleTriviallyValid ==
    \A r \in Slots :
        (/\ Evaluated(r) /\ ~RuleApplies(r)
         /\ HasDefMarker(r) /\ HasReturnMarker(r) /\ Violations(r) = <<>>) =>
            /\ Body(r).success
            /\ \A i \in 1..Len(Body(r).test_results) : Body(r).test_results[i].passed

\* a submission for the other problem succeeds on code that fails the card's conditions
C13_Witness ==
    \E r \in Slots :
        /\ Evaluated(r) /\ IsSubmit(r) /\ ~RuleApplies(r)
        /\ Includes(SentCode(r), CARD_MARKER)
        /\ ~NameOk(r) /\ ~AgeOk(r)
        /\ Body(r).success

\* the structural flags of an evaluated request: the checklist lines of a failure
\* transcript; a success has both
ReportedHasFunction(r) == IF Body(r).success THEN TRUE ELSE Body(r).output.analysis.function
ReportedHasReturn(r) == IF Body(r).success THEN TRUE ELSE Body(r).output.analysis.return

\* C14: hasFunctionDef is true exactly when 'def ' occurs anywhere in the text and
\* hasReturn exactly when 'return' occurs anywhere in the text; code without the
\* return marker has hasReturn=false and success=false, with or without a function
\* definition.
C14_StructureIsSubstringPresence ==
    \A r \in Slots : Evaluated(r) =>
        /\ ~Body(r).success =>
                /\ Body(r).output.analysis.function = HasDefMarker(r)
                /\ Body(r).output.analysis.return = HasReturnMarker(r)
        /\ Body(r).success => (HasDefMarker(r) /\ HasReturnMarker(r))
        /\ ~HasReturnMarker(r) => (~ReportedHasReturn(r) /\ ~Body(r).success)

\* a text whose only 'def ' and 'return' sit inside comments passes the structural check
C14_Witness ==
    \E r \in Slots :
        /\ Evaluated(r)
        /\ Includes(SentCode(r), LineUndefComment)
        /\ Includes(SentCode(r), LineReturnedComment)
        /\ ~Includes(SentCode(r), LineReturn)
        /\ ~Includes(SentCode(r), LineDefCard)
        /\ ReportedHasFunction(r) /\ ReportedHasReturn(r)
        /\ Body(r).success

\* the problem id of the request names no stored problem
Unresolved(r) == \A p \in problems : p.id # reqs[r].body.problem_id

\* C15: a submit request whose problem id resolves to no stored problem is answered
\* with 404, and the answer carries no SubmissionResult and no progress update.
C15_UnknownProblemNotFound ==
    [][\A r \in Slots :
            (/\ reqs[r].pc = "awaitProblem" /\ Unresolved(r)
             /\ reqs'[r].pc = "done" /\ ~reqs'[r].thrown) =>
                /\ reqs'[r].response.status = 404
                /\ DOMAIN reqs'[r].response.body = {"error"}
                /\ lastProgress' = lastProgress]_vars

\* a submission for an id of no row, answered after an earlier accepted submission
C15_Witness ==
    \E r \in Slots :
        /\ Answered(r) /\ IsSubmit(r) /\ ~reqs[r].thrown
        /\ Unresolved(r)
        /\ reqs[r].response.status = 404
        /\ \E pair \in Pairs : lastProgress[pair] # Null

\* the request leaves out a required field: its code, or the test cases of execute
OmitsRequiredField(r) ==
    \/ reqs[r].body.code = Undefined
    \/ IsExecute(r) /\ reqs[r].body.test_cases = Undefined

\* C16: a request that omits a required field is rejected before evaluation: no
\* syntax, structural or content check is computed for it and no verdict is produced.
C16_OmittedFieldRejectedFirst ==
    \A r \in Slots : (Answered(r) /\ OmitsRequiredField(r)) =>
        /\ reqs[r].computed = NO_CHECKS
        /\ reqs[r].response.status # 200

\* the request's data makes its handler throw: no code to search, or test cases
\* that cannot be mapped
UnusableBody(r) ==
    \/ reqs[r].body.code = Undefined
    \/ /\ IsExecute(r)
       /\ \/ reqs[r].body.test_cases = Undefined
          \/ \E i \in 1..Len(reqs[r].body.test_cases.arr) :
                reqs[r].body.test_cases.arr[i] = Null

\* the fixed payloads of the two catch blocks
GenericFailure(r) ==
    IF IsExecute(r)
    THEN /\ Body(r).error = Str("Code execution failed")
         /\ Body(r).success = FALSE
         /\ Body(r).test_results = <<>>
         /\ Body(r).execution_time = 0
         /\ DOMAIN Body(r) = {"success", "error", "execution_time", "test_results", "output"}
    ELSE /\ Body(r).error = Str("Failed to submit solution")
         /\ DOMAIN Body(r) = {"error"}

\* C17: a fault raised while a handler evaluates a request is caught and answered
\* with a generic 500 payload, never a raw fault or a partial result.
C17_FaultsAnsweredGenerically ==
    \A r \in Slots :
        /\ (Answered(r) /\ (UnusableBody(r) \/ reqs[r].thrown)) =>
                (reqs[r].response.status = 500 /\ GenericFailure(r))
        /\ (Answered(r) /\ reqs[r].response.status = 500) => reqs[r].thrown

\* C17 (persistence): the step that answers a fault leaves the recorded progress as
\* it was.
C17_FaultsPersistNothing ==
    [][\A r \in Slots :
            (reqs[r].pc # "done" /\ reqs'[r].pc = "done" /\ reqs'[r].thrown)
                => lastProgress' = lastProgress]_vars

\* C17: both parts
C17_FaultsCaught == []C17_FaultsAnsweredGenerically /\ C17_FaultsPersistNothing

\* malformed test-case data in execute, answered after an earlier accepted submission
C17_Witness ==
    \E r \in Slots :
        /\ Answered(r) /\ IsExecute(r)
        /\ reqs[r].body.code # Undefined
        /\ reqs[r].body.test_cases = Arr(<<Null>>)
        /\ reqs[r].response.status = 500
        /\ \E pair \in Pairs : lastProgress[pair] # Null

\* the tuple literal of the four bindings extracted from the code of request r
ExtractedTuple(r) ==
    <<"(">> \o Quoted(nameMatch(SentCode(r)).group)
        \o <<",", " ">> \o NumberToString(ParseInt(ageMatch(SentCode(r)).group))
        \o <<",", " ">> \o Quoted(cityMatch(SentCode(r)).group)
        \o <<",", " ">> \o Quoted(professionMatch(SentCode(r)).group)
        \o <<")">>

\* C18: on success for the business-card problem, the transcript embeds the tuple of
\* the four bindings extracted from the submitted code, in the order name, age, city,
\* profession, the strings quoted and the age a number.
C18_CardTranscriptShowsBindings ==
    \A r \in Slots : (Evaluated(r) /\ Body(r).success /\ RuleApplies(r)) =>
        Body(r).output.result = ExtractedTuple(r)

\* the literal of a test case's expected value: an array parenthesized and joined
\* with commas, a string quoted, anything else stringified
ExpectedLiteral(v) ==
    IF "arr" \in DOMAIN v THEN <<"(">> \o JoinElements(v.arr) \o <<")">>
    ELSE IF "str" \in DOMAIN v THEN <<"'">> \o v.str \o <<"'">>
    ELSE ScalarToString(v)

\* C19: on success for a problem other than the business card, in execute and in
\* submit, the value the transcript renders is the first test case's expected value.
C19_OtherTranscriptShowsExpected ==
    \A r \in Slots :
        (Evaluated(r) /\ Body(r).success /\ ~RuleApplies(r) /\ SuppliedCases(r) # <<>>) =>
            Body(r).output.result = ExpectedLiteral(SuppliedCases(r)[1].expected)

\* the response of request r has the fields of a SubmissionResult
IsSubmissionResult(r) ==
    {"success", "execution_time", "test_results", "output", "error"} \subseteq DOMAIN Body(r)

\* C20 as stated: the execution time of every SubmissionResult returned by execute or
\* submit is an integer t with 50 <= t < 150.
C20_EveryResultTimeInRange ==
    \A r \in Slots : (Answered(r) /\ IsSubmissionResult(r)) =>
        Body(r).execution_time \in 50..149

\* C20 (amended): the execution time of every SubmissionResult of a completed
\* evaluation, in execute and in submit, is an integer t with 50 <= t < 150; the
\* result that execute's catch block returns reports 0.
C20_EvaluatedTimeInRange ==
    \A r \in Slots : (Answered(r) /\ IsSubmissionResult(r)) =>
        IF reqs[r].response.status = 200
        THEN Body(r).execution_time \in 50..149
        ELSE IsExecute(r) /\ reqs[r].response.status = 500 /\ Body(r).execution_time = 0

\* a submission timed at the top of the range
C20_Witness ==
    \E r \in Slots :
        /\ Evaluated(r) /\ IsSubmit(r)
        /\ Body(r).execution_time = 149
        /\ Body(r).progress.best_time = Num(149)

(***************************************************************************)
(* The checklist, and the two endpoints on the same code.                  *)
(***************************************************************************)
\* the four predicates of request r, each read off the submitted text on its own
NoForeignKeyword(r) ==
    /\ ~Includes(SentCode(r), LET_MARKER)
    /\ ~Includes(SentCode(r), CONST_MARKER)
    /\ ~Includes(SentCode(r), VAR_MARKER)

BindingsOk(r) ==
    RuleApplies(r) => (NameOk(r) /\ AgeOk(r) /\ CityOk(r) /\ ProfessionOk(r))

\* C21: all four predicate groups are computed for every evaluated submission, and
\* on failure the transcript's checklist marks each of the four lines failed exactly
\* when its own predicate is false, whatever the other three are.
C21_ChecklistShowsEachPredicate ==
    \A r \in Slots : Evaluated(r) =>
        /\ reqs[r].computed = ALL_CHECKS
        /\ ~Body(r).success =>
                /\ Body(r).output.analysis.function = HasDefMarker(r)
                /\ Body(r).output.analysis.return = HasReturnMarker(r)
                /\ Body(r).output.analysis.syntax = NoForeignKeyword(r)
                /\ Body(r).output.analysis.content = BindingsOk(r)

\* a failure whose first and third lines fail while the second and fourth pass
C21_Witness ==
    \E r \in Slots :
        /\ Evaluated(r) /\ ~Body(r).success
        /\ ~Body(r).output.analysis.function
        /\ Body(r).output.analysis.return
        /\ ~Body(r).output.analysis.syntax
        /\ Body(r).output.analysis.content

\* C22: for the same code, execute and submit return the same success verdict
\* whenever their rule selection agrees, that is whenever the problem is titled
\* 'Personal Information Card' exactly when the code contains 'create_business_card'.
C22_DryRunAgreesWithSubmit ==
    \A r1, r2 \in Slots :
        (/\ Evaluated(r1) /\ IsExecute(r1)
         /\ Evaluated(r2) /\ IsSubmit(r2)
         /\ SentCode(r1) = SentCode(r2)
         /\ (StoredProblem(r2).title = CARD_TITLE
                <=> Includes(SentCode(r1), CARD_MARKER))) =>
            Body(r1).success = Body(r2).success

\* a dry run and a submission of one text that both pass, with the card's rule
\* selected by both
C22_Witness ==
    \E r1, r2 \in Slots :
        /\ Evaluated(r1) /\ IsExecute(r1)
        /\ Evaluated(r2) /\ IsSubmit(r2)
        /\ SentCode(r1) = SentCode(r2)
        /\ StoredProblem(r2).title = CARD_TITLE
        /\ Includes(SentCode(r1), CARD_MARKER)
        /\ Body(r1).success /\ Body(r2).success

(***************************************************************************)
(* The Problem page.                                                       *)
(***************************************************************************)
\* C23: the result the problem page displays always comes from a run or submit
\* request issued for the problem now displayed; after a navigation no result of a
\* request issued for the previous problem is displayed, and none enables Next.
C23_DisplayedResultIsOfShownProblem ==
    /\ page.executionResult # Undefined => page.resultOf = page.problemId
    /\ showNextButton => page.resultOf = page.problemId

\* C24: in the description panel, for the problem displayed and whatever the clicks
\* on the hint button, the number of revealed hints never exceeds the number of
\* hints of the problem, and the hint-used callback has fired exactly once per hint
\* revealed: the page's count of hints used is the number of hints the panel shows.
C24_RevealedHintsWithinProblemAndCounted ==
    /\ panel.hintsRevealed <= Len(ProblemHints(page.problemId))
    /\ page.hintsUsed = Len(RevealedHints)

(***************************************************************************)
(* The dashboard.                                                          *)
(***************************************************************************)
\* the rows a problem hangs from
LessonOf(problem) == CHOOSE lesson \in curriculum.lessons : lesson.id = problem.lessonId
SectionOf(problem) ==
    CHOOSE section \in curriculum.sections : section.id = LessonOf(problem).sectionId

Completed(problem) ==
    \E row \in curriculum.userProgress : row.problemId = problem.id /\ row.isCompleted

\* not completed, in an unlocked lesson of an unlocked section
Eligible(problem) ==
    /\ ~Completed(problem)
    /\ ~LessonOf(problem).isLocked
    /\ ~SectionOf(problem).isLocked

\* strictly earlier: by the order of their sections when these differ, else by the
\* order of their lessons when these differ, else by their own order (rows of equal
\* orderIndex are in no order)
ComesBefore(a, b) ==
    IF SectionOf(a) # SectionOf(b)
    THEN SectionOf(a).orderIndex < SectionOf(b).orderIndex
    ELSE IF LessonOf(a) # LessonOf(b)
         THEN LessonOf(a).orderIndex < LessonOf(b).orderIndex
         ELSE a.orderIndex < b.orderIndex

EligibleProblems == {problem \in curriculum.problems : Eligible(problem)}

\* C25: the dashboard's current_problem is the first problem not completed in section
\* order, then lesson order, then problem order, among the problems of unlocked
\* lessons of unlocked sections; it is null exactly when there is no such problem.
C25_CurrentProblemIsFirstOpen ==
    (dashboard # Null /\ dashboard.status = 200) =>
        LET current == dashboard.body.current_problem
        IN /\ current = Null <=> EligibleProblems = {}
           /\ current # Null =>
                /\ \E problem \in EligibleProblems : problem.id = current.id
                /\ ~current.is_completed
                /\ \A problem \in EligibleProblems :
                        ~ComesBefore(problem, [id |-> current.id,
                                               lessonId |-> current.lessonId,
                                               orderIndex |-> current.orderIndex])

\* a dashboard whose current problem comes after a completed problem and after a
\* problem not completed that a lock keeps out
C25_Witness ==
    /\ dashboard # Null /\ dashboard.status = 200
    /\ dashboard.body.current_problem # Null
    /\ LET current == CHOOSE problem \in curriculum.problems :
                            problem.id = dashboard.body.current_problem.id
       IN /\ \E problem \in curriculum.problems :
                ComesBefore(problem, current) /\ Completed(problem)
          /\ \E problem \in curriculum.problems :
                ComesBefore(problem, current) /\ ~Completed(problem)

\* a dashboard with no current problem although a problem is not completed
C25_WitnessNull ==
    /\ dashboard # Null /\ dashboard.status = 200
    /\ dashboard.body.current_problem = Null
    /\ \E problem \in curriculum.problems : ~Completed(problem)

====
